---- MODULE Spec2Model ----
(***************************************************************************)
(* Model of Random_waveform_code.py: the WaveformGenerator (SCPI commands   *)
(* over a VISA device handle, CSV -> float32 transcoding, the composite     *)
(* upload operation) and the WaveformGUI handlers that drive it (manual     *)
(* form, custom upload, Redis remote command).                              *)
(*                                                                         *)
(* Representation.                                                         *)
(*  - Text is a TLA+ string; f-strings are concatenations (\o).             *)
(*  - A float is the record [s, m, e] standing for (-1)^s * m * 2^e with m  *)
(*    odd or zero.  Every float of the model has m < 2^31, so it is exact   *)
(*    as a Python double.                                                   *)
(*  - A file is [exists, rows, bytes]: rows is what csv.reader yields for   *)
(*    a text file (one sequence of field strings per line), bytes is the    *)
(*    content of a binary file.                                            *)
(*  - The device handle is a recording double: device is the sequence of   *)
(*    operations it accepted, oldest first.                                 *)
(*  - Tk form variables (channel, file_path, frequency, ...) are read with  *)
(*    .get() when a handler runs; their values are the handler's inputs.    *)
(***************************************************************************)
EXTENDS Integers, Sequences, FiniteSets, TLC

VARIABLES
    generator,   \* WaveformGUI.generator is set (connect_device made one)
    device,      \* operations accepted by WaveformGenerator.device since it was opened
    redis,       \* the value stored under the Redis key, or absent
    files,       \* the file system: path -> file
    calls,       \* handler calls made on the current device handle
    call         \* the last handler call: its inputs, where its trace starts, how it ended

vars == <<generator, device, redis, files, calls, call>>

-----------------------------------------------------------------------------
(* Bounds *)

\* Data rows (after the header) of a generated CSV file.
MaxRows == 2
\* Fields of one row of a generated CSV file.
MaxCols == 2
\* Fields of all data rows of a generated CSV file together.
MaxSamples == 3
\* Handler calls on one device handle.
MaxCalls == 1

-----------------------------------------------------------------------------
(* Python values *)

\* IEEE-754 binary32, the layout of struct format 'f'.
FLT_MANT_DIG == 24
FLT_MAX_EXP == 127
FLT_MIN_QUANTUM == -149
FLT_EXP_BIAS == 127

RECURSIVE Pow2(_)
Pow2(n) == IF n <= 0 THEN 1 ELSE 2 * Pow2(n - 1)

Fl(s, m, e) == [s |-> s, m |-> m, e |-> e]

\* Decimal literals and the doubles float() gives for them; any other text
\* is not a number.
FloatLiterals ==
    { [text |-> "1000", val |-> Fl(0, 125, 3)],
      [text |-> "2.5", val |-> Fl(0, 5, -1)],
      [text |-> "1.5", val |-> Fl(0, 3, -1)],
      [text |-> "-2", val |-> Fl(1, 1, 1)],
      [text |-> "16777217", val |-> Fl(0, 16777217, 0)],
      [text |-> "340282366920938463463374607431768211456", val |-> Fl(0, 1, 128)] }

\* repr() of the doubles that reach an f-string.
FloatReprs ==
    { [val |-> Fl(0, 125, 3), text |-> "1000.0"],
      [val |-> Fl(0, 5, -1), text |-> "2.5"],
      [val |-> Fl(0, 3, -1), text |-> "1.5"],
      [val |-> Fl(1, 1, 1), text |-> "-2.0"],
      [val |-> Fl(0, 16777217, 0), text |-> "16777217.0"],
      [val |-> Fl(0, 1, 128), text |-> "3.402823669209385e+38"],
      [val |-> Fl(0, 45, 1), text |-> "90.0"],
      [val |-> Fl(0, 1, -1), text |-> "0.5"] }

\* float(text) succeeds
is_float(text) == \E l \in FloatLiterals : l.text = text

\* float(text), where it succeeds
float(text) == (CHOOSE l \in FloatLiterals : l.text = text).val

\* f'{x}' of a float x
str(x) == (CHOOSE r \in FloatReprs : r.val = x).text

\* Python's seq[i], 0-based
Item(seq, i) == seq[i + 1]

-----------------------------------------------------------------------------
(* struct.pack('f', x) *)

RECURSIVE BitLength(_)
BitLength(m) == IF m = 0 THEN 0 ELSE 1 + BitLength(m \div 2)

\* m / 2^shift rounded to the nearest integer, ties to even (m < 2^31).
RoundHalfEven(m, shift) ==
    IF shift <= 0 THEN m
    ELSE IF shift >= 31 THEN (IF shift = 31 /\ m > Pow2(30) THEN 1 ELSE 0)
    ELSE LET d == Pow2(shift)
             q == m \div d
             r == m % d
             half == d \div 2
         IN  IF r > half \/ (r = half /\ q % 2 = 1) THEN q + 1 ELSE q

\* (float)x of C, as np_float of CPython's _struct does for the native format
\* 'f': the binary32 nearest to x as [s, bexp, frac] (biased exponent, 23-bit
\* fraction); a value that rounds beyond the largest finite binary32 becomes
\* an infinity (bexp 255, frac 0), and no error is raised.
ToFloat32(x) ==
    IF x.m = 0 THEN [s |-> x.s, bexp |-> 0, frac |-> 0]
    ELSE LET top == x.e + BitLength(x.m) - 1
             q0 == IF top - (FLT_MANT_DIG - 1) > FLT_MIN_QUANTUM
                     THEN top - (FLT_MANT_DIG - 1) ELSE FLT_MIN_QUANTUM
             m0 == IF q0 <= x.e THEN x.m * Pow2(x.e - q0)
                                ELSE RoundHalfEven(x.m, q0 - x.e)
             carry == m0 = Pow2(FLT_MANT_DIG)
             mant == IF carry THEN Pow2(FLT_MANT_DIG - 1) ELSE m0
             q == IF carry THEN q0 + 1 ELSE q0
             normal == mant >= Pow2(FLT_MANT_DIG - 1)
         IN  IF normal /\ q + (FLT_MANT_DIG - 1) > FLT_MAX_EXP
               THEN [s |-> x.s, bexp |-> 2 * FLT_EXP_BIAS + 1, frac |-> 0]
               ELSE [s |-> x.s,
                     bexp |-> IF normal THEN q + (FLT_MANT_DIG - 1) + FLT_EXP_BIAS ELSE 0,
                     frac |-> IF normal THEN mant - Pow2(FLT_MANT_DIG - 1) ELSE mant]

\* sys.byteorder of the host: format 'f' without a prefix packs in native order.
byteorder == "little"

\* The four bytes of a binary32, most significant first.
Float32Bytes(f) ==
    << f.s * 128 + f.bexp \div 2,
       (f.bexp % 2) * 128 + f.frac \div 65536,
       (f.frac \div 256) % 256,
       f.frac % 256 >>

Reverse(s) == [i \in 1..Len(s) |-> s[Len(s) + 1 - i]]

\* struct.pack('f', x): four bytes
pack_f(x) ==
    LET b == Float32Bytes(ToFloat32(x))
    IN  IF byteorder = "little" THEN Reverse(b) ELSE b

-----------------------------------------------------------------------------
(* os.path *)

Dirs == {"", "data/"}
Stems == {"wave", "none"}
Exts == {"", ".csv", ".bin"}

\* Every path of the model, with its directory part, base name without
\* extension, and extension: path = dir \o stem \o ext.
PathTable ==
    { [path |-> d \o s \o x, dir |-> d, stem |-> s, ext |-> x] :
        d \in Dirs, s \in Stems, x \in Exts }

PathParts(path) == CHOOSE r \in PathTable : r.path = path

\* os.path.splitext(path): <<root, ext>>
splitext(path) == LET r == PathParts(path) IN <<r.dir \o r.stem, r.ext>>

\* os.path.basename(path)
basename(path) == LET r == PathParts(path) IN r.stem \o r.ext

\* The files the program is pointed at, and the .bin files it derives.
CsvPaths == {"data/wave.csv", "data/none.csv"}
BinPaths == {"data/wave.bin", "data/none.bin"}
Paths == CsvPaths \cup BinPaths

NoFile == [exists |-> FALSE, rows |-> <<>>, bytes |-> <<>>]
TextFile(rows) == [exists |-> TRUE, rows |-> rows, bytes |-> <<>>]
BinFile(bytes) == [exists |-> TRUE, rows |-> <<>>, bytes |-> bytes]

\* os.path.isfile(path)
isfile(fs, path) == path \in DOMAIN fs /\ fs[path].exists

-----------------------------------------------------------------------------
(* WaveformGenerator.convert_csv_to_binary *)

\* list(map(float, row)) succeeds
row_is_float(row) == \A i \in 1..Len(row) : is_float(row[i])

\* list(map(float, row)), where it succeeds
float_row(row) == [i \in 1..Len(row) |-> float(row[i])]

\* struct.pack('f' * len(float_row), *float_row)
RECURSIVE pack_row(_)
pack_row(floats) ==
    IF floats = <<>> THEN <<>> ELSE pack_f(Head(floats)) \o pack_row(Tail(floats))

\* A loop that takes the row format from the first data row: a later row
\* of another length does not fit it.
RECURSIVE transcode_rows_fixed_width(_)
transcode_rows_fixed_width(rows) ==
    IF rows = <<>> THEN [bytes |-> <<>>, result |-> "ok"]
    ELSE IF ~row_is_float(Head(rows)) THEN [bytes |-> <<>>, result |-> "ValueError"]
    ELSE LET rest == IF Len(rows) >= 2 /\ Len(rows[2]) # Len(rows[1])
                       THEN [bytes |-> <<>>, result |-> "struct.error"]
                       ELSE transcode_rows_fixed_width(Tail(rows))
         IN  [bytes |-> pack_row(float_row(Head(rows))) \o rest.bytes,
              result |-> rest.result]

\* The for loop over the data rows (lines 68-71): the bytes written to
\* binfile and how the loop ended.
RECURSIVE transcode_rows(_)
transcode_rows(rows) ==
    IF rows = <<>> THEN [bytes |-> <<>>, result |-> "ok"]
    ELSE IF ~row_is_float(Head(rows)) THEN [bytes |-> <<>>, result |-> "ValueError"]
    ELSE LET rest == transcode_rows(Tail(rows))
         IN  [bytes |-> pack_row(float_row(Head(rows))) \o rest.bytes,
              result |-> rest.result]

\* A with block that leaves nothing behind when a row fails.
transcode_file_all_or_nothing(fs, csv_filename, bin_filename) ==
    LET rows == fs[csv_filename].rows
    IN  IF rows = <<>>
          THEN [files |-> [fs EXCEPT ![bin_filename] = BinFile(<<>>)],
                result |-> "StopIteration"]
          ELSE LET t == transcode_rows(Tail(rows))
               IN  [files |-> [fs EXCEPT ![bin_filename] =
                                   BinFile(IF t.result = "ok" THEN t.bytes ELSE <<>>)],
                    result |-> t.result]

\* A with block without next(reader): the first row is data too.
transcode_file_keep_header(fs, csv_filename, bin_filename) ==
    LET t == transcode_rows(fs[csv_filename].rows)
    IN  [files |-> [fs EXCEPT ![bin_filename] = BinFile(t.bytes)], result |-> t.result]

\* The with block (lines 65-71): binfile is opened 'wb' (created or emptied),
\* the first row is skipped (StopIteration if there is none), the other rows
\* are written.  Leaving the block closes binfile, so what was written
\* before a failure stays.
transcode_file(fs, csv_filename, bin_filename) ==
    LET rows == fs[csv_filename].rows
    IN  IF rows = <<>>
          THEN [files |-> [fs EXCEPT ![bin_filename] = BinFile(<<>>)],
                result |-> "StopIteration"]
          ELSE LET t == transcode_rows(Tail(rows))
               IN  [files |-> [fs EXCEPT ![bin_filename] = BinFile(t.bytes)],
                    result |-> t.result]

\* A conversion that opens binfile before it looks for the CSV.
convert_open_first(fs, csv_filename, bin_filename) ==
    IF ~isfile(fs, csv_filename)
      THEN [files |-> [fs EXCEPT ![bin_filename] = BinFile(<<>>)],
            result |-> "FileNotFoundError"]
      ELSE transcode_file(fs, csv_filename, bin_filename)

\* convert_csv_to_binary(csv_filename, bin_filename) on file system fs: the
\* file system afterwards and the result ("ok" or the exception raised).
convert_csv_to_binary(fs, csv_filename, bin_filename) ==
    IF ~isfile(fs, csv_filename)
      THEN [files |-> fs, result |-> "FileNotFoundError"]
      ELSE transcode_file(fs, csv_filename, bin_filename)

-----------------------------------------------------------------------------
(* The device handle and the single-purpose setters *)

Channels == {1, 2}

\* self.device.write(command)
send_command(command) == [op |-> "write", message |-> command, data |-> <<>>]

\* self.device.query(command)
query_command(command) == [op |-> "query", message |-> command, data |-> <<>>]

set_waveform_type(channel, waveform_type) ==
    send_command("C" \o ToString(channel) \o ":BSWV WVTP," \o waveform_type)

set_frequency(channel, frequency) ==
    send_command("C" \o ToString(channel) \o ":BSWV FRQ," \o str(frequency))

set_amplitude(channel, amplitude) ==
    send_command("C" \o ToString(channel) \o ":BSWV AMP," \o str(amplitude))

set_phase(channel, phase) ==
    send_command("C" \o ToString(channel) \o ":BSWV PHSE," \o str(phase))

set_offset(channel, offset) ==
    send_command("C" \o ToString(channel) \o ":BSWV OFST," \o str(offset))

start_waveform(channel) ==
    send_command("C" \o ToString(channel) \o ":OUTP ON")

\* A stop addressed like the binary upload, to channel 1.
stop_waveform_channel_1(channel) ==
    send_command("C1:OUTP OFF")

stop_waveform(channel) ==
    send_command("C" \o ToString(channel) \o ":OUTP OFF")

set_arbitrary_waveform_by_name(channel, name) ==
    send_command("C" \o ToString(channel) \o ":ARWV NAME," \o name)

\* save_binary_waveform_to_device(bin_filename): one write_binary_values of
\* the file's bytes, under the file's base name without extension.
save_binary_waveform_to_device(fs, bin_filename) ==
    LET waveform_name == splitext(basename(bin_filename))[1]
    IN  [op |-> "write_binary_values",
         message |-> "C1:WVDT WVNM," \o waveform_name \o ",WAVEDATA,",
         data |-> fs[bin_filename].bytes]

-----------------------------------------------------------------------------
(* Running a handler body against the device *)

\* A body is a sequence of steps: a device operation, or a raise.
Dev(operation) == [kind |-> "dev", operation |-> operation, exc |-> ""]
Raise(exc) == [kind |-> "raise", operation |-> send_command(""), exc |-> exc]

\* Device operations a body reaches before its first raise.
RECURSIVE dev_count(_)
dev_count(steps) ==
    IF steps = <<>> \/ Head(steps).kind = "raise" THEN 0
    ELSE 1 + dev_count(Tail(steps))

\* A run that still issues what follows a refused operation.
RECURSIVE run_past_failure(_, _)
run_past_failure(steps, fail_at) ==
    IF steps = <<>> THEN [issued |-> <<>>, result |-> "ok"]
    ELSE LET s == Head(steps)
         IN  IF s.kind = "raise" THEN [issued |-> <<>>, result |-> s.exc]
             ELSE IF fail_at = 1
               THEN [issued |-> run_past_failure(Tail(steps), 0).issued,
                     result |-> "VisaIOError"]
             ELSE LET r == run_past_failure(Tail(steps), IF fail_at = 0 THEN 0 ELSE fail_at - 1)
                  IN  [issued |-> <<s.operation>> \o r.issued, result |-> r.result]

\* Run steps in order.  fail_at = k > 0: the device refuses the k-th
\* operation (pyvisa raises VisaIOError from write); 0: it accepts all.
\* Nothing follows a raise.
RECURSIVE run(_, _)
run(steps, fail_at) ==
    IF steps = <<>> THEN [issued |-> <<>>, result |-> "ok"]
    ELSE LET s == Head(steps)
         IN  IF s.kind = "raise" THEN [issued |-> <<>>, result |-> s.exc]
             ELSE IF fail_at = 1 THEN [issued |-> <<>>, result |-> "VisaIOError"]
             ELSE LET r == run(Tail(steps), IF fail_at = 0 THEN 0 ELSE fail_at - 1)
                  IN  [issued |-> <<s.operation>> \o r.issued, result |-> r.result]

-----------------------------------------------------------------------------
(* WaveformGenerator.upload_and_generate_waveform *)

\* The form's numeric fields and waveform type, as .get() returns them.
Forms ==
    { [waveform_type |-> "SINE", frequency |-> Fl(0, 125, 3), amplitude |-> Fl(0, 5, -1),
       phase |-> Fl(0, 45, 1), offset |-> Fl(0, 1, -1)],
      [waveform_type |-> "RAMP", frequency |-> Fl(0, 5, -1), amplitude |-> Fl(0, 3, -1),
       phase |-> Fl(0, 1, -1), offset |-> Fl(1, 1, 1)] }

NoForm ==
    [waveform_type |-> "", frequency |-> Fl(0, 0, 0), amplitude |-> Fl(0, 0, 0),
     phase |-> Fl(0, 0, 0), offset |-> Fl(0, 0, 0)]

\* A body that sets the offset before the phase.
upload_steps_offset_first(fs, channel, csv_filename, bin_filename, frequency, amplitude, phase, offset) ==
    << Dev(save_binary_waveform_to_device(fs, bin_filename)),
       Dev(set_arbitrary_waveform_by_name(channel, splitext(basename(csv_filename))[1])),
       Dev(set_frequency(channel, frequency)),
       Dev(set_amplitude(channel, amplitude)),
       Dev(set_offset(channel, offset)),
       Dev(set_phase(channel, phase)),
       Dev(start_waveform(channel)) >>

\* The body after a successful conversion (lines 84-90).
upload_steps(fs, channel, csv_filename, bin_filename, frequency, amplitude, phase, offset) ==
    << Dev(save_binary_waveform_to_device(fs, bin_filename)),
       Dev(set_arbitrary_waveform_by_name(channel, splitext(basename(csv_filename))[1])),
       Dev(set_frequency(channel, frequency)),
       Dev(set_amplitude(channel, amplitude)),
       Dev(set_phase(channel, phase)),
       Dev(set_offset(channel, offset)),
       Dev(start_waveform(channel)) >>

\* upload_and_generate_waveform(channel, csv_filename, frequency, amplitude,
\* phase, offset): the file system afterwards, the device operations issued,
\* and the result.
upload_and_generate_waveform(fs, channel, csv_filename, frequency, amplitude, phase, offset, fail_at) ==
    LET bin_filename == splitext(csv_filename)[1] \o ".bin"
        conv == convert_csv_to_binary(fs, csv_filename, bin_filename)
    IN  IF conv.result # "ok"
          THEN [files |-> conv.files, issued |-> <<>>, result |-> conv.result]
          ELSE LET r == run(upload_steps(conv.files, channel, csv_filename, bin_filename,
                                         frequency, amplitude, phase, offset), fail_at)
               IN  [files |-> conv.files, issued |-> r.issued, result |-> r.result]

\* The signature of upload_and_generate_waveform after self: six positional
\* parameters, none with a default.
upload_and_generate_waveform_params ==
    <<"channel", "csv_filename", "frequency", "amplitude", "phase", "offset">>

\* A call self.generator.upload_and_generate_waveform(*args): Python binds the
\* arguments before the body runs and raises TypeError when a required
\* parameter is left without one.
call_upload_and_generate_waveform(fs, args, fail_at) ==
    IF Len(args) # Len(upload_and_generate_waveform_params)
      THEN [files |-> fs, issued |-> <<>>, result |-> "TypeError"]
      ELSE upload_and_generate_waveform(fs, args[1], args[2], args[3], args[4], args[5],
                                        args[6], fail_at)

-----------------------------------------------------------------------------
(* Remote commands *)

\* A command string is a sequence of pieces, each a run of whitespace or a
\* run of other characters; the string is their concatenation.
Whitespace == {" ", "  "}

\* str.split(): the maximal runs of non-whitespace characters.
RECURSIVE split_from(_, _)
split_from(pieces, word) ==
    IF pieces = <<>> THEN (IF word = "" THEN <<>> ELSE <<word>>)
    ELSE IF Head(pieces) \in Whitespace
           THEN (IF word = "" THEN <<>> ELSE <<word>>) \o split_from(Tail(pieces), "")
           ELSE split_from(Tail(pieces), word \o Head(pieces))

split(pieces) == split_from(pieces, "")

\* ' '.join(words)
RECURSIVE join(_)
join(words) ==
    IF Len(words) <= 1 THEN words ELSE <<Head(words), " ">> \o join(Tail(words))

WaveformTypes == {"SINE", "RAMP"}
\* <frequency> <amplitude> of a set command
NumberTokens == {<<"1000", "2.5">>, <<"2.5", "1000">>}

\* The strings another process may leave under the Redis key.
RemoteCommands ==
    { join(<<"set", "1", t, n[1], n[2]>>) : t \in WaveformTypes, n \in NumberTokens }
    \cup { join(<<"upload", "1", p>>) : p \in CsvPaths }
    \cup { join(<<"set", "X", "1000", "2.5">>),
           join(<<"set", "1", "SINE", "fast", "2.5">>),
           <<"upload">>,
           <<"stop">>,
           <<" ", "stop", "  ", "now">>,
           <<"halt">>,
           <<>> }

\* redis_client.get(key): a string, or None for an absent key.
None == [nil |-> TRUE, text |-> <<>>]
Some(text) == [nil |-> FALSE, text |-> text]

\* A 'set' branch that never enables the output.
set_steps_no_start(channel, parts) ==
    IF Len(parts) <= 4 \/ ~is_float(Item(parts, 3)) \/ ~is_float(Item(parts, 4))
      THEN <<Raise("IndexError")>>
      ELSE << Dev(set_waveform_type(channel, Item(parts, 2))),
              Dev(set_frequency(channel, float(Item(parts, 3)))),
              Dev(set_amplitude(channel, float(Item(parts, 4)))) >>

\* A 'set' branch that reads its arguments right after the verb.
set_steps_from_verb(channel, parts) ==
    IF Len(parts) <= 3 \/ ~is_float(Item(parts, 2)) \/ ~is_float(Item(parts, 3))
      THEN <<Raise("IndexError")>>
      ELSE << Dev(set_waveform_type(channel, Item(parts, 1))),
              Dev(set_frequency(channel, float(Item(parts, 2)))),
              Dev(set_amplitude(channel, float(Item(parts, 3)))),
              Dev(start_waveform(channel)) >>

\* The branch of execute_redis_command for the verb 'set' (lines 268-272).
set_steps(channel, parts) ==
    IF Len(parts) <= 2 THEN <<Raise("IndexError")>>
    ELSE <<Dev(set_waveform_type(channel, Item(parts, 2)))>> \o
      (IF Len(parts) <= 3 THEN <<Raise("IndexError")>>
       ELSE IF ~is_float(Item(parts, 3)) THEN <<Raise("ValueError")>>
       ELSE <<Dev(set_frequency(channel, float(Item(parts, 3))))>> \o
         (IF Len(parts) <= 4 THEN <<Raise("IndexError")>>
          ELSE IF ~is_float(Item(parts, 4)) THEN <<Raise("ValueError")>>
          ELSE << Dev(set_amplitude(channel, float(Item(parts, 4)))),
                  Dev(start_waveform(channel)) >>))

\* execute_redis_command with self.channel.get() = channel, after
\* get_command_from_redis returned command: the file system afterwards, the
\* device operations issued, and the result.
execute_redis_command(fs, channel, command, fail_at) ==
    IF command.nil
      THEN [files |-> fs, issued |-> <<>>, result |-> "AttributeError"]
    ELSE LET parts == split(command.text)
             steps(body) == LET r == run(body, fail_at)
                            IN  [files |-> fs, issued |-> r.issued, result |-> r.result]
         IN  IF parts = <<>> THEN steps(<<Raise("IndexError")>>)
             ELSE IF Item(parts, 0) = "upload"
               THEN IF Len(parts) <= 2 THEN steps(<<Raise("IndexError")>>)
                    ELSE LET csv_filename == Item(parts, 2)
                         IN  IF ~isfile(fs, csv_filename) THEN steps(<<>>)
                             ELSE call_upload_and_generate_waveform(
                                      fs, <<channel, csv_filename>>, fail_at)
             ELSE IF Item(parts, 0) = "set" THEN steps(set_steps(channel, parts))
             ELSE IF Item(parts, 0) = "stop" THEN steps(<<Dev(stop_waveform(channel))>>)
             ELSE steps(<<>>)

\* Device operations execute_redis_command can reach, for the choice of the
\* operation the device refuses.
execute_redis_command_reach(fs, channel, command) ==
    Len(execute_redis_command(fs, channel, command, 0).issued)

\* set_waveform_manual (lines 250-255); plot_waveform touches no state of the model.
set_waveform_manual(channel, form) ==
    << Dev(set_waveform_type(channel, form.waveform_type)),
       Dev(set_frequency(channel, form.frequency)),
       Dev(set_amplitude(channel, form.amplitude)),
       Dev(set_phase(channel, form.phase)),
       Dev(set_offset(channel, form.offset)),
       Dev(start_waveform(channel)) >>

\* WaveformGUI.upload_and_generate (line 284): all six arguments are supplied.
upload_and_generate(fs, channel, file_path, form, fail_at) ==
    call_upload_and_generate_waveform(
        fs, <<channel, file_path, form.frequency, form.amplitude, form.phase, form.offset>>,
        fail_at)

-----------------------------------------------------------------------------
(* State *)

NoCall ==
    [op |-> "", channel |-> 0, csv_filename |-> "", form |-> NoForm, command |-> None,
     fail_at |-> 0, start |-> 0, result |-> "", bin_before |-> NoFile]

\* What binfile held before the last call opened it.
Stale == <<255, 254>>

Header == <<"t", "v">>

\* The files of the bench set-up: a well-formed table, and a path that
\* names no file.
BenchFiles ==
    [p \in Paths |->
        IF p = "data/wave.csv" THEN TextFile(<<Header, <<"1.5", "2.5">>, <<"1000", "-2">>>>)
        ELSE NoFile]

\* After WaveformGUI.__init__: no generator yet.
Init ==
    /\ generator = FALSE
    /\ device = <<>>
    /\ redis = None
    /\ files = BenchFiles
    /\ calls = 0
    /\ call = NoCall

ConnectionTypes == {"LAN", "GPIB", ""}
Addresses == {"10"}

\* WaveformGenerator(resource_string): opens the resource and queries its
\* identity.  Which resource was opened is not part of the state.
WaveformGenerator(resource_string) ==
    /\ generator' = TRUE
    /\ device' = <<query_command("*IDN?")>>
    /\ calls' = 0

\* connect_device: an unknown connection type returns without a generator.
connect_device(connection_type, address) ==
    IF connection_type = "LAN" THEN WaveformGenerator("TCPIP::" \o address \o "::INSTR")
    ELSE IF connection_type = "GPIB" THEN WaveformGenerator("GPIB::" \o address \o "::INSTR")
    ELSE UNCHANGED <<generator, device, calls>>

ConnectDevice ==
    \E connection_type \in ConnectionTypes, address \in Addresses :
        /\ connect_device(connection_type, address)
        /\ call' = [NoCall EXCEPT !.op = "connect_device", !.result = "ok"]
        /\ UNCHANGED <<redis, files>>

\* set_command_to_redis(key, value), by this or another process.  A command
\* stored once the session has run MaxCalls handlers is never read, so the
\* store is followed only while a handler can still run.
SetCommandToRedis ==
    \E value \in RemoteCommands :
        /\ calls < MaxCalls
        /\ redis' = Some(value)
        /\ UNCHANGED <<generator, device, files, calls, call>>

\* A handler that runs before connect_device has set self.generator.
NoGenerator(op) ==
    /\ ~generator
    /\ call' = [NoCall EXCEPT !.op = op, !.result = "AttributeError"]
    /\ UNCHANGED <<generator, device, redis, files, calls>>

\* The effect of a handler on the connected device.
Handled(this, r) ==
    /\ device' = device \o r.issued
    /\ files' = r.files
    /\ calls' = calls + 1
    /\ call' = [this EXCEPT !.start = Len(device), !.result = r.result]
    /\ UNCHANGED <<generator, redis>>

ExecuteRedisCommand ==
    \/ NoGenerator("execute_redis_command")
    \/ /\ generator
       /\ calls < MaxCalls
       /\ \E channel \in Channels :
            \E fail_at \in 0..execute_redis_command_reach(files, channel, redis) :
                Handled([NoCall EXCEPT !.op = "execute_redis_command",
                                       !.channel = channel,
                                       !.command = redis,
                                       !.fail_at = fail_at],
                        execute_redis_command(files, channel, redis, fail_at))

SetWaveformManual ==
    \/ NoGenerator("set_waveform_manual")
    \/ /\ generator
       /\ calls < MaxCalls
       /\ \E channel \in Channels, form \in Forms :
            \E fail_at \in 0..dev_count(set_waveform_manual(channel, form)) :
                Handled([NoCall EXCEPT !.op = "set_waveform_manual",
                                       !.channel = channel,
                                       !.form = form,
                                       !.fail_at = fail_at],
                        [files |-> files] @@ run(set_waveform_manual(channel, form), fail_at))

UploadAndGenerate ==
    \/ NoGenerator("upload_and_generate")
    \/ /\ generator
       /\ calls < MaxCalls
       /\ \E channel \in Channels, file_path \in CsvPaths, form \in Forms :
            \E fail_at \in 0..Len(upload_and_generate(files, channel, file_path, form, 0).issued) :
                Handled([NoCall EXCEPT !.op = "upload_and_generate",
                                       !.channel = channel,
                                       !.csv_filename = file_path,
                                       !.form = form,
                                       !.fail_at = fail_at,
                                       !.bin_before = files[splitext(file_path)[1] \o ".bin"]],
                        upload_and_generate(files, channel, file_path, form, fail_at))

Next ==
    \/ ConnectDevice
    \/ SetCommandToRedis
    \/ ExecuteRedisCommand
    \/ SetWaveformManual
    \/ UploadAndGenerate

Spec == Init /\ [][Next]_vars

-----------------------------------------------------------------------------
(* The transcoder on generated tables *)

Fields == {"1.5", "16777217", "340282366920938463463374607431768211456", "abc"}
Headers == {Header, <<"1.5">>}

TableRows == UNION {[1..n -> Fields] : n \in 0..MaxCols}

RECURSIVE Samples(_)
Samples(rows) == IF rows = <<>> THEN 0 ELSE Len(Head(rows)) + Samples(Tail(rows))

\* Header plus data rows within the bounds, and the empty file.
Tables ==
    {<<>>} \cup
    { <<h>> \o d : h \in Headers,
                   d \in {r \in UNION {[1..n -> TableRows] : n \in 0..MaxRows} :
                             Samples(r) <= MaxSamples} }

\* A connected generator, one CSV path holding any table or no file, and
\* its .bin either absent or left over from an earlier run.
InitTranscode ==
    /\ generator = TRUE
    /\ device = <<query_command("*IDN?")>>
    /\ redis = None
    /\ \E csv \in {NoFile} \cup {TextFile(t) : t \in Tables}, bin \in {NoFile, BinFile(Stale)} :
         files = [p \in Paths |-> IF p = "data/wave.csv" THEN csv
                                  ELSE IF p = "data/wave.bin" THEN bin
                                  ELSE NoFile]
    /\ calls = 0
    /\ call = NoCall

\* generator.convert_csv_to_binary(csv_filename, bin_filename), called directly.
ConvertCsvToBinary ==
    \E csv_filename \in {"data/wave.csv"} :
        LET bin_filename == splitext(csv_filename)[1] \o ".bin"
            r == convert_csv_to_binary(files, csv_filename, bin_filename)
        IN  /\ files' = r.files
            /\ call' = [NoCall EXCEPT !.op = "convert_csv_to_binary",
                                      !.csv_filename = csv_filename,
                                      !.start = Len(device),
                                      !.result = r.result,
                                      !.bin_before = files[bin_filename]]
            /\ UNCHANGED <<generator, device, redis, calls>>

\* generator.upload_and_generate_waveform(...) on the generated table, the
\* device accepting every operation.
UploadAndGenerateWaveform ==
    /\ calls < MaxCalls
    /\ \E channel \in {2}, csv_filename \in {"data/wave.csv"},
          form \in {f \in Forms : f.waveform_type = "SINE"} :
         Handled([NoCall EXCEPT !.op = "upload_and_generate_waveform",
                                !.channel = channel,
                                !.csv_filename = csv_filename,
                                !.form = form,
                                !.bin_before = files[splitext(csv_filename)[1] \o ".bin"]],
                 upload_and_generate_waveform(files, channel, csv_filename, form.frequency,
                                              form.amplitude, form.phase, form.offset, 0))

NextTranscode ==
    \/ ConvertCsvToBinary
    \/ UploadAndGenerateWaveform

SpecTranscode == InitTranscode /\ [][NextTranscode]_vars

-----------------------------------------------------------------------------
(* Properties: what the last call put on the device *)

\* The operations the last handler call issued.
Trace == SubSeq(device, call.start + 1, Len(device))

Written(message) == [op |-> "write", message |-> message, data |-> <<>>]

C(channel) == "C" \o ToString(channel)

\* struct.pack('f', ...) of the bench table data/wave.csv (1.5, 2.5, 1000, -2).
WaveBytes == <<0, 0, 192, 63, 0, 0, 32, 64, 0, 0, 122, 68, 0, 0, 0, 192>>

\* The form's values as Python renders them: 1000 Hz, 2.5 V, 90 degrees,
\* 0.5 V with SINE; 2.5 Hz, 1.5 V, 0.5 degrees, -2 V with RAMP.
FormText(form) ==
    IF form.waveform_type = "SINE"
      THEN [frequency |-> "1000.0", amplitude |-> "2.5", phase |-> "90.0", offset |-> "0.5"]
      ELSE [frequency |-> "2.5", amplitude |-> "1.5", phase |-> "0.5", offset |-> "-2.0"]

\* The trace of a successful composite upload of data/wave.csv with the
\* form's values on a channel.
UploadTrace(channel, form) ==
    << [op |-> "write_binary_values", message |-> "C1:WVDT WVNM,wave,WAVEDATA,",
        data |-> WaveBytes],
       Written(C(channel) \o ":ARWV NAME,wave"),
       Written(C(channel) \o ":BSWV FRQ," \o FormText(form).frequency),
       Written(C(channel) \o ":BSWV AMP," \o FormText(form).amplitude),
       Written(C(channel) \o ":BSWV PHSE," \o FormText(form).phase),
       Written(C(channel) \o ":BSWV OFST," \o FormText(form).offset),
       Written(C(channel) \o ":OUTP ON") >>

\* C1: a call of upload_and_generate_waveform on an existing well-formed CSV
\* in which no step fails issues exactly seven device operations, in order:
\* the binary upload addressed to channel 1 under the CSV's base name, then
\* select-by-name, frequency, amplitude, phase, offset and output-enable on
\* the requested channel.
C1_UploadIssuesSevenInOrder ==
    (/\ call.op = "upload_and_generate"
     /\ call.csv_filename = "data/wave.csv"
     /\ call.fail_at = 0)
    => /\ call.result = "ok"
       /\ Trace = UploadTrace(call.channel, call.form)

C1_Witness ==
    /\ call.op = "upload_and_generate"
    /\ call.csv_filename = "data/wave.csv"
    /\ call.channel = 2
    /\ call.form.waveform_type = "RAMP"
    /\ call.result = "ok"
    /\ Len(Trace) = 7
    /\ Trace[1].message = "C1:WVDT WVNM,wave,WAVEDATA,"

\* How Python renders the value of a numeric token in a command.
Rendered(token) == CASE token = "1000" -> "1000.0" [] token = "2.5" -> "2.5"

\* C2: for every remote command `set <unused> <waveform_type> <frequency>
\* <amplitude>` with numeric frequency and amplitude, execute_redis_command
\* issues exactly four commands on the configured channel: waveform type =
\* third token, frequency = value of the fourth token, amplitude = value of
\* the fifth token, output enable; no phase and no offset command.
C2_SetIssuesFourCommands ==
    \A unused \in {"1"}, waveform_type \in {"SINE", "RAMP"},
       frequency \in {"1000", "2.5"}, amplitude \in {"1000", "2.5"} :
        (/\ call.op = "execute_redis_command"
         /\ call.command = Some(<<"set", " ", unused, " ", waveform_type, " ",
                                  frequency, " ", amplitude>>)
         /\ call.fail_at = 0)
        => /\ call.result = "ok"
           /\ Trace = << Written(C(call.channel) \o ":BSWV WVTP," \o waveform_type),
                         Written(C(call.channel) \o ":BSWV FRQ," \o Rendered(frequency)),
                         Written(C(call.channel) \o ":BSWV AMP," \o Rendered(amplitude)),
                         Written(C(call.channel) \o ":OUTP ON") >>

C2_Witness ==
    /\ call.op = "execute_redis_command"
    /\ call.command = Some(<<"set", " ", "1", " ", "RAMP", " ", "2.5", " ", "1000">>)
    /\ call.channel = 2
    /\ call.result = "ok"
    /\ Len(Trace) = 4

SetX == Some(<<"set", " ", "X", " ", "1000", " ", "2.5">>)

\* C3 as stated: dispatching "set X 1000 2.5" issues waveform type X,
\* frequency 1000, amplitude 2.5 and output enable on the configured channel,
\* completes without error, and issues no phase or offset command.
C3_Original ==
    (/\ call.op = "execute_redis_command"
     /\ call.command = SetX
     /\ call.fail_at = 0)
    => /\ call.result = "ok"
       /\ Trace = << Written(C(call.channel) \o ":BSWV WVTP,X"),
                     Written(C(call.channel) \o ":BSWV FRQ,1000.0"),
                     Written(C(call.channel) \o ":BSWV AMP,2.5"),
                     Written(C(call.channel) \o ":OUTP ON") >>

\* C3, amended: dispatching "set X 1000 2.5" issues waveform type 1000 and
\* frequency 2.5 on the configured channel and then fails with an IndexError
\* (there is no fifth token); no amplitude, output-enable, phase or offset
\* command is issued.
C3_SetXShiftsTokens ==
    (/\ call.op = "execute_redis_command"
     /\ call.command = SetX
     /\ call.fail_at = 0)
    => /\ call.result = "IndexError"
       /\ Trace = << Written(C(call.channel) \o ":BSWV WVTP,1000"),
                     Written(C(call.channel) \o ":BSWV FRQ,2.5") >>

C3_Witness ==
    /\ call.op = "execute_redis_command"
    /\ call.command = SetX
    /\ call.fail_at = 0
    /\ call.channel = 1
    /\ call.result = "IndexError"
    /\ Len(Trace) = 2

\* C4: for a remote command `upload <unused> <csv_path>` naming an existing
\* well-formed CSV, execute_redis_command carries out the composite upload on
\* the configured channel: the CSV is transcoded and the device receives the
\* binary upload, select-by-name and the rest, ending with output enable.
C4_RemoteUploadRunsComposite ==
    (/\ call.op = "execute_redis_command"
     /\ call.command = Some(<<"upload", " ", "1", " ", "data/wave.csv">>)
     /\ call.fail_at = 0)
    => /\ call.result = "ok"
       /\ files["data/wave.bin"] = BinFile(WaveBytes)
       /\ Len(Trace) = 7
       /\ Trace[1].op = "write_binary_values"
       /\ Trace[2] = Written(C(call.channel) \o ":ARWV NAME,wave")
       /\ Trace[7] = Written(C(call.channel) \o ":OUTP ON")

\* C5: if the device refuses step k of the seven-step sequence of
\* upload_and_generate_waveform, exactly the k-1 earlier operations have been
\* issued and nothing after them: the trace is a strict prefix of the
\* successful trace.
C5_FailedUploadLeavesPrefix ==
    (/\ call.op = "upload_and_generate"
     /\ call.result = "VisaIOError")
    => /\ call.fail_at \in 1..7
       /\ Trace = SubSeq(UploadTrace(call.channel, call.form), 1, call.fail_at - 1)

C5_Witness ==
    /\ call.op = "upload_and_generate"
    /\ call.result = "VisaIOError"
    /\ call.fail_at = 4
    /\ call.channel = 2
    /\ Len(Trace) = 3

\* C10: a remote command whose first token is `stop` issues exactly one
\* device command, OUTP OFF on the configured channel, whatever follows the
\* verb.
C10_StopIssuesOutputOff ==
    (/\ call.op = "execute_redis_command"
     /\ call.command \in {Some(<<"stop">>), Some(<<" ", "stop", "  ", "now">>)}
     /\ call.fail_at = 0)
    => /\ call.result = "ok"
       /\ Trace = <<Written(C(call.channel) \o ":OUTP OFF")>>

C10_Witness ==
    /\ call.op = "execute_redis_command"
    /\ call.command = Some(<<" ", "stop", "  ", "now">>)
    /\ call.channel = 2
    /\ call.result = "ok"
    /\ Len(Trace) = 1

-----------------------------------------------------------------------------
(* Properties: the transcoder *)

Csv == files["data/wave.csv"]
Bin == files["data/wave.bin"]

\* The last call ran convert_csv_to_binary on data/wave.csv.
Transcoded == call.op \in {"convert_csv_to_binary", "upload_and_generate_waveform"}

\* The rows after the header.
DataRows == Tail(Csv.rows)

HasHeader == Csv.exists /\ Csv.rows # <<>>

Huge == "340282366920938463463374607431768211456"

Numeric(field) == field \in {"1.5", "16777217", Huge}

NumericRow(row) == \A i \in 1..Len(row) : Numeric(row[i])

\* The float32 of CPython for each numeric field, as struct.pack('f', ...)
\* writes it on a little-endian host, and as a value: 1.5 is exact, 16777217
\* rounds to 16777216, 2^128 becomes +inf.
FieldBytes(field) ==
    CASE field = "1.5" -> <<0, 0, 192, 63>>
      [] field = "16777217" -> <<0, 0, 128, 75>>
      [] field = Huge -> <<0, 0, 128, 127>>

PlusInfinity == [s |-> 0, m |-> 0, e |-> 128]

Float32Of(field) ==
    CASE field = "1.5" -> Fl(0, 3, -1)
      [] field = "16777217" -> Fl(0, 1, 24)
      [] field = Huge -> PlusInfinity

\* The number a numeric field denotes.
ValueOf(field) ==
    CASE field = "1.5" -> Fl(0, 3, -1)
      [] field = "16777217" -> Fl(0, 16777217, 0)
      [] field = Huge -> Fl(0, 1, 128)

RECURSIVE Flatten(_)
Flatten(rows) == IF rows = <<>> THEN <<>> ELSE Head(rows) \o Flatten(Tail(rows))

RECURSIVE Encoded(_)
Encoded(fields) ==
    IF fields = <<>> THEN <<>> ELSE FieldBytes(Head(fields)) \o Encoded(Tail(fields))

RECURSIVE OddMantissa(_, _, _)
OddMantissa(s, m, e) ==
    IF m = 0 THEN Fl(s, 0, 0)
    ELSE IF m % 2 = 0 THEN OddMantissa(s, m \div 2, e + 1)
    ELSE Fl(s, m, e)

\* The value of the i-th little-endian float32 of a byte sequence.
Decoded(bytes, i) ==
    LET b0 == bytes[4 * i - 3]
        b1 == bytes[4 * i - 2]
        b2 == bytes[4 * i - 1]
        b3 == bytes[4 * i]
        s == b3 \div 128
        bexp == (b3 % 128) * 2 + b2 \div 128
        frac == (b2 % 128) * 65536 + b1 * 256 + b0
    IN  IF bexp = 255 THEN [s |-> s, m |-> frac, e |-> 128]
        ELSE IF bexp = 0 THEN OddMantissa(s, frac, -149)
        ELSE OddMantissa(s, 8388608 + frac, bexp - 150)

\* C6: when the CSV path names no file, convert_csv_to_binary fails with
\* FileNotFoundError without creating or modifying the output file, and
\* upload_and_generate_waveform with that path issues no device operation.
C6_MissingCsvTouchesNothing ==
    (Transcoded /\ ~Csv.exists)
    => /\ call.result = "FileNotFoundError"
       /\ Bin = call.bin_before
       /\ Trace = <<>>

C6_Witness ==
    /\ call.op = "upload_and_generate_waveform"
    /\ ~Csv.exists
    /\ call.result = "FileNotFoundError"
    /\ call.bin_before = BinFile(Stale)
    /\ Bin = BinFile(Stale)

\* Data row r is the first with a non-numeric field.
FirstBad(r) ==
    /\ r \in 1..Len(DataRows)
    /\ ~NumericRow(DataRows[r])
    /\ \A j \in 1..(r - 1) : NumericRow(DataRows[j])

\* C7: when data row r is the first with a non-numeric field, the conversion
\* fails at row r: the output file holds exactly the encoded values of data
\* rows 1..r-1 in order and nothing of row r or later, and
\* upload_and_generate_waveform issues no device operation.
C7_BadRowLeavesEarlierRows ==
    (Transcoded /\ HasHeader)
    => \A r \in 1..Len(DataRows) :
          FirstBad(r)
          => /\ call.result = "ValueError"
             /\ Bin = BinFile(Encoded(Flatten(SubSeq(DataRows, 1, r - 1))))
             /\ Trace = <<>>

C7_Witness ==
    /\ call.op = "upload_and_generate_waveform"
    /\ HasHeader
    /\ FirstBad(2)
    /\ Len(DataRows[1]) = 2
    /\ call.result = "ValueError"
    /\ Len(Bin.bytes) = 8
    /\ call.bin_before = BinFile(Stale)

\* Data rows 1..i are numeric, and row i is the first whose column count
\* differs from that of the rows before it.
FirstRagged(i) ==
    /\ i \in 2..Len(DataRows)
    /\ \A j \in 1..i : NumericRow(DataRows[j])
    /\ Len(DataRows[i]) # Len(DataRows[1])
    /\ \A j \in 1..(i - 1) : Len(DataRows[j]) = Len(DataRows[1])

IsPrefix(p, q) == Len(p) <= Len(q) /\ SubSeq(q, 1, Len(p)) = p

Rectangular ==
    /\ HasHeader
    /\ \A j \in 1..Len(DataRows) :
          NumericRow(DataRows[j]) /\ Len(DataRows[j]) = Len(DataRows[1])

\* C9 as stated: for a header followed by N data rows of M numeric fields
\* each, the conversion writes exactly N*M four-byte values, equal to the
\* source values in row-major order; the first row contributes nothing and
\* the previous content of the output file is replaced.
C9_Original ==
    (Transcoded /\ Rectangular)
    => /\ call.result = "ok"
       /\ Bin.exists
       /\ Len(Bin.bytes) = 4 * Len(Flatten(DataRows))
       /\ \A i \in 1..Len(Flatten(DataRows)) :
             Decoded(Bin.bytes, i) = ValueOf(Flatten(DataRows)[i])

\* C9, amended: for a header followed by N data rows of M numeric fields
\* each, the conversion writes exactly N*M four-byte values, each the source
\* value as float() reads it rounded to the nearest float32 (infinity for a
\* value beyond the float32 range), in row-major order; the first row
\* contributes nothing and the previous content of the output file is
\* replaced.
C9_WritesNearestFloat32 ==
    (Transcoded /\ Rectangular)
    => /\ call.result = "ok"
       /\ Bin.exists
       /\ Len(Bin.bytes) = 4 * Len(Flatten(DataRows))
       /\ \A i \in 1..Len(Flatten(DataRows)) :
             Decoded(Bin.bytes, i) = Float32Of(Flatten(DataRows)[i])

C9_Witness ==
    /\ call.op = "convert_csv_to_binary"
    /\ Rectangular
    /\ Csv.rows[1] = <<"1.5">>
    /\ DataRows = << <<"1.5">>, <<"16777217">> >>
    /\ call.bin_before = BinFile(Stale)
    /\ call.result = "ok"
    /\ Bin = BinFile(<<0, 0, 192, 63, 0, 0, 128, 75>>)

====
